---- MODULE Spec2Model ----
(***************************************************************************)
(* A state-machine model of jgruselius/tadm-plot: the extraction-backend   *)
(* selector, the step-type decoder, the curve/tolerance merge, the          *)
(* two-panel chart renderer and the wx front end (main.py).                 *)
(*                                                                          *)
(* The repository holds several independent entry points; each is modelled *)
(* by its own specification over the shared variables:                      *)
(*   SpecSelect  tadm_polars/data.py  backend selection, get_driver         *)
(*   SpecStep    StepType.from_int                                          *)
(*   SpecMerge   import_tolerance_band_data / merge / row filters           *)
(*   SpecPlot    plot_both_steps (pandas, polars, wx and CLI renderers)     *)
(*   SpecGui     main.py: start-up and the MainFrame event handlers         *)
(*   SpecExport  tadm/mdbtools.py, tadm_polars/mdbtools.py: the imports     *)
(*               that run mdb-export                                        *)
(*   SpecFilter  get_data_for_step / get_data_for_liquid_class              *)
(*   SpecDecode  bin_to_int / np.frombuffer(x, np.int16)                    *)
(* A specification leaves the variables of the other parts at their idle   *)
(* values.                                                                  *)
(***************************************************************************)
EXTENDS Integers, Sequences, FiniteSets, TLC

VARIABLES
    \* --- host environment (read by the selector and by main.py) ---
    platform,          \* platform.system()
    pyodbc_installed,  \* whether "import pyodbc" succeeds
    odbc_drivers,      \* pyodbc.drivers()
    mdb_export,        \* outcome of running "mdb-export --version"
    \* --- backend selection (tadm_polars/data.py) ---
    sel_pc,            \* "start" | "selected" | "connected"
    sel_result,        \* outcome of get_data_module()
    drv_impl,          \* which get_driver was called last ("none" before)
    drv_result,        \* its outcome
    \* --- StepType.from_int ---
    st_pc,             \* "start" | "done"
    st_impl,           \* module whose StepType is used
    st_integer,        \* the argument
    st_result,         \* the returned member
    \* --- extraction and merge (tadm/mdbtools.py, tadm_polars/mdbtools.py) ---
    m_pc,              \* "start" | "imported" | "merged"
    m_impl,            \* "pandas" | "polars"
    m_curves,          \* the TadmCurve table returned by import_tadm_data
    m_liquid_class,    \* the LiquidClass table of the reference database
    m_tol_band,        \* the TadmToleranceBand table of the reference database
    m_tol,             \* result of import_tolerance_band_data
    m_merged,          \* result of merge_tadm_and_tolerance_data
    \* --- chart rendering (plot_both_steps) ---
    p_pc,              \* "start" | "done"
    p_variant,         \* which plot_both_steps
    p_data,            \* the rows handed to it
    p_out_plot,        \* whether an output path is given
    p_noshow,          \* the noshow flag
    p_fig,             \* what was rendered
    \* --- GUI front end A (main.py) ---
    g_pc,              \* "import" | "main" | "mainloop" | "closed" | "crashed"
    g_backend,         \* the module name imported as tadm_data_module
    g_dialog,          \* whether driver_help showed its dialog
    data_tadm_path,    \* Data.tadm_path
    data_df,           \* Data.df
    data_lc_names,     \* Data.lc_names
    data_step_data,    \* Data.step_data
    button_import,     \* whether the Import button is enabled
    list_box,          \* the wx.Choice: enabled, items, selection
    button_plot,       \* whether the Generate button is enabled
    g_event,           \* the handler that ran last
    g_error,           \* the step of the last import that raised ("none")
    g_imported,        \* whether some load_data() has completed
    g_plot,            \* the liquid class and figure of the last Generate
    \* --- imports through mdb-export (tadm/mdbtools.py, tadm_polars/mdbtools.py) ---
    x_pc,              \* "start" | "done"
    x_impl,            \* "pandas" | "polars"
    x_db,              \* the TadmCurve table of the measurement database
    x_op,              \* the import function called ("none" before)
    x_runs,            \* what each mdb-export invocation did, in order
    x_result,          \* the table returned, or the exception raised
    \* --- row filters (tadm/plotter.py, tadm_polars/plotter.py) ---
    f_pc,              \* "start" | "done"
    f_impl,            \* "pandas" | "polars"
    f_mixed_and,       \* what polars does with Boolean & Int64
    f_df,              \* the table
    f_name,            \* the liquid_class argument
    f_step,            \* the step_type argument
    f_result,          \* outcome of get_data_for_step
    \* --- sample decoding (bin_to_int) ---
    d_pc,              \* "start" | "done"
    d_byteorder,       \* sys.byteorder of the host
    d_bytes,           \* the byte string
    d_result           \* outcome of bin_to_int

envVars == <<platform, pyodbc_installed, odbc_drivers, mdb_export>>
selVars == <<sel_pc, sel_result, drv_impl, drv_result>>
stVars == <<st_pc, st_impl, st_integer, st_result>>
mVars == <<m_pc, m_impl, m_curves, m_liquid_class, m_tol_band, m_tol, m_merged>>
pVars == <<p_pc, p_variant, p_data, p_out_plot, p_noshow, p_fig>>
dataVars == <<data_tadm_path, data_df, data_lc_names, data_step_data>>
widgetVars == <<button_import, list_box, button_plot>>
gVars == <<g_pc, g_backend, g_dialog, dataVars, widgetVars, g_event, g_error,
           g_imported, g_plot>>
xVars == <<x_pc, x_impl, x_db, x_op, x_runs, x_result>>
fVars == <<f_pc, f_impl, f_mixed_and, f_df, f_name, f_step, f_result>>
dVars == <<d_pc, d_byteorder, d_bytes, d_result>>
vars == <<envVars, selVars, stVars, mVars, pVars, gVars, xVars, fVars, dVars>>

-----------------------------------------------------------------------------
(* Outcomes of a call: a returned value or a raised exception.              *)

Ret(v) == [kind |-> "return", value |-> v]
Raise(e) == [kind |-> "raise", value |-> e]
NoCall == [kind |-> "none", value |-> "none"]

-----------------------------------------------------------------------------
(* Host environment                                                         *)

MSAccessDriver == "Microsoft Access Driver (*.mdb, *.accdb)"
MDBToolsDriver == "MDBToolsODBC"

\* platform.system() values: the three named ones and one other system.
Platforms == {"Windows", "Linux", "Darwin", "FreeBSD"}

\* What "mdb-export --version" can do: the executable is not on PATH
\* (FileNotFoundError), runs and exits 0, runs and exits non-zero
\* (CalledProcessError), or is found but may not be executed (PermissionError).
MdbExportOutcomes == {"missing", "ok", "nonzero", "noexec"}

EnvInit ==
    /\ platform \in Platforms
    /\ pyodbc_installed \in BOOLEAN
    /\ odbc_drivers \in SUBSET {MSAccessDriver, MDBToolsDriver}
    /\ mdb_export \in MdbExportOutcomes

EnvIdle ==
    /\ platform = "Linux"
    /\ pyodbc_installed = FALSE
    /\ odbc_drivers = {}
    /\ mdb_export = "ok"

-----------------------------------------------------------------------------
(* get_driver: four copies in the repository                                *)

\* tadm_polars/data.py get_driver
data_get_driver(system) ==
    CASE system = "Windows" -> Ret(MSAccessDriver)
      [] system \in {"Linux", "Darwin"} -> Ret(MDBToolsDriver)
      [] OTHER -> Raise("NotImplementedError")

\* tadm_polars/pyodbc.py get_driver
polars_pyodbc_get_driver(system) ==
    CASE system = "Windows" -> Ret(MSAccessDriver)
      [] system = "Linux" -> Ret(MDBToolsDriver)
      [] OTHER -> Raise("NotImplementedError")

\* tadm/pyodbc.py get_driver
pandas_pyodbc_get_driver(system) ==
    CASE system = "Windows" -> Ret(MSAccessDriver)
      [] system = "Linux" -> Ret(MDBToolsDriver)
      [] OTHER -> Raise("NotImplementedError")

\* tadm.py get_driver
cli_get_driver(system) ==
    CASE system = "Windows" -> Ret(MSAccessDriver)
      [] system = "Linux" -> Ret(MDBToolsDriver)
      [] OTHER -> Raise("NotImplementedError")

DriverImpls == {"tadm_polars.data", "tadm_polars.pyodbc", "tadm.pyodbc", "tadm.py"}

get_driver_of(impl, system) ==
    CASE impl = "tadm_polars.data" -> data_get_driver(system)
      [] impl = "tadm_polars.pyodbc" -> polars_pyodbc_get_driver(system)
      [] impl = "tadm.pyodbc" -> pandas_pyodbc_get_driver(system)
      [] impl = "tadm.py" -> cli_get_driver(system)

-----------------------------------------------------------------------------
(* tadm_polars/data.py: the backend selector                                *)

\* check_odbc: import pyodbc, then get_driver(), then the registry lookup;
\* NotImplementedError and ModuleNotFoundError are caught and give False.
check_odbc(installed, system, drivers) ==
    LET d == data_get_driver(system) IN
    /\ installed
    /\ d.kind = "return"
    /\ d.value \in drivers

\* check_for_mdbtools: subprocess.check_output(["mdb-export", "--version"]);
\* only FileNotFoundError is caught.
check_for_mdbtools(outcome) ==
    CASE outcome = "ok" -> Ret("True")
      [] outcome = "missing" -> Ret("False")
      [] outcome = "nonzero" -> Raise("CalledProcessError")
      [] outcome = "noexec" -> Raise("PermissionError")

\* A selector that asks for the external tool first.
get_data_module_tool_first(installed, system, drivers, outcome) ==
    LET m == check_for_mdbtools(outcome) IN
    IF m = Ret("True") THEN Ret("tadm_polars.mdbtools")
    ELSE IF check_odbc(installed, system, drivers) THEN Ret("tadm_polars.pyodbc")
    ELSE IF m.kind = "raise" THEN m
    ELSE Raise("RuntimeError")

get_data_module(installed, system, drivers, outcome) ==
    IF check_odbc(installed, system, drivers) THEN Ret("tadm_polars.pyodbc")
    ELSE LET m == check_for_mdbtools(outcome) IN
         IF m.kind = "raise" THEN m
         ELSE IF m.value = "True" THEN Ret("tadm_polars.mdbtools")
         ELSE Raise("RuntimeError")

SelInit ==
    /\ sel_pc = "start"
    /\ sel_result = NoCall
    /\ drv_impl = "none"
    /\ drv_result = NoCall

\* A front end calls get_data_module() once at start-up.
GetDataModule ==
    /\ sel_pc = "start"
    /\ sel_result' = get_data_module(pyodbc_installed, platform, odbc_drivers, mdb_export)
    /\ sel_pc' = "selected"
    /\ UNCHANGED <<xVars, fVars, dVars, envVars, drv_impl, drv_result, stVars, mVars, pVars, gVars>>

\* The selected native-driver backend opens its first connection:
\* pyodbc.connect(f"Driver={get_driver()};DBQ={dbpath};") in import_tadm_data.
Connect ==
    /\ sel_pc = "selected"
    /\ sel_result = Ret("tadm_polars.pyodbc")
    /\ drv_impl' = "tadm_polars.pyodbc"
    /\ drv_result' = polars_pyodbc_get_driver(platform)
    /\ sel_pc' = "connected"
    /\ UNCHANGED <<xVars, fVars, dVars, envVars, sel_result, stVars, mVars, pVars, gVars>>

\* Any of the get_driver copies is called on its own.
GetDriver ==
    /\ sel_pc = "start"
    /\ drv_impl = "none"
    /\ \E impl \in DriverImpls :
          /\ drv_impl' = impl
          /\ drv_result' = get_driver_of(impl, platform)
    /\ UNCHANGED <<xVars, fVars, dVars, envVars, sel_pc, sel_result, stVars, mVars, pVars, gVars>>

-----------------------------------------------------------------------------
(* StepType (tadm/plotter.py, tadm_polars/plotter.py, tadm.py)              *)

Aspirate == -533331728
Dispense == -533331727
Unknown == 0

\* StepType.from_int, identical in the three modules.
from_int(integer) ==
    IF integer = -533331728 THEN "Aspirate"
    ELSE IF integer = -533331727 THEN "Aspirate"
    ELSE "Unknown"

StepImpls == {"tadm.plotter", "tadm_polars.plotter", "tadm.py"}

\* How far around the two codes and around 0 the arguments are drawn.
CodeMargin == 8

StepArgs ==
    (Aspirate - CodeMargin .. Dispense + CodeMargin) \cup (-CodeMargin .. CodeMargin)

StInit ==
    /\ st_pc = "start"
    /\ st_impl \in StepImpls
    /\ st_integer \in StepArgs
    /\ st_result = "none"

StIdle ==
    /\ st_pc = "start"
    /\ st_impl = "tadm.plotter"
    /\ st_integer = 0
    /\ st_result = "none"

FromInt ==
    /\ st_pc = "start"
    /\ st_result' = from_int(st_integer)
    /\ st_pc' = "done"
    /\ UNCHANGED <<xVars, fVars, dVars, envVars, selVars, st_impl, st_integer, mVars, pVars, gVars>>

-----------------------------------------------------------------------------
(* Tables.  A table is a sequence of rows (records); a liquid-class name is *)
(* a sequence of characters, so that substring search can be computed.      *)

Names == {<<"a">>, <<"a", "b">>}

StepCodes == {Aspirate, Dispense}

\* An absent cell of the merged table (NaN in pandas, null in polars) and a
\* decoded sample array.
NoArray == [present |-> FALSE, a |-> <<>>]
Array(a) == [present |-> TRUE, a |-> a]
\* An absent LiquidClassID cell (ids of the reference database start at 1).
NoId == 0

\* Bounds of the drawn tables.
MaxCurves == 2
MaxLiquidClassId == 2

CurveRow(id, name, step, channel, tadm) ==
    [CurveId |-> id, LiquidClassName |-> name, StepType |-> step,
     ChannelNumber |-> channel, TADM |-> tadm]

\* The decoded tolerance arrays stored for (id, step): breakpoint/level pairs.
LowerBandOf(id, step) == Array(<<0, 10 * id, 50, IF step = Aspirate THEN 20 ELSE 30>>)
UpperBandOf(id, step) == Array(<<0, 100 * id, 50, IF step = Aspirate THEN 200 ELSE 300>>)

\* Curve tables: up to MaxCurves rows, CurveId the row's position.
CurveTables ==
    UNION {
        { [i \in 1..n |-> CurveRow(i, f[i][1], f[i][2], 1, <<0, i>>)] :
            f \in [1..n -> Names \X StepCodes] } :
        n \in 0..MaxCurves }

\* LiquidClass tables: LiquidClassID is the key; an id is absent or carries a
\* name (two ids may carry the same name).
RECURSIVE RowsOfIds(_, _)
RowsOfIds(f, id) ==
    IF id > MaxLiquidClassId THEN <<>>
    ELSE (IF f[id] = <<>> THEN <<>>
          ELSE << [LiquidClassID |-> id, LiquidClassName |-> f[id]] >>)
         \o RowsOfIds(f, id + 1)

LiquidClassTables ==
    { RowsOfIds(f, 1) : f \in [1..MaxLiquidClassId -> Names \cup {<<>>}] }

\* TadmToleranceBand tables: at most one row per (LiquidClassID, StepType).
RECURSIVE BandRows(_, _)
BandRows(keys, id) ==
    IF id > MaxLiquidClassId THEN <<>>
    ELSE LET row(step) ==
                 IF <<id, step>> \in keys
                 THEN << [LiquidClassID |-> id, StepType |-> step,
                          LowerToleranceBandTADM |-> LowerBandOf(id, step),
                          UpperToleranceBandTADM |-> UpperBandOf(id, step)] >>
                 ELSE <<>>
         IN row(Aspirate) \o row(Dispense) \o BandRows(keys, id + 1)

ToleranceBandTables ==
    { BandRows(keys, 1) : keys \in SUBSET ((1..MaxLiquidClassId) \X StepCodes) }

Range(s) == { s[i] : i \in 1..Len(s) }

\* get_liquid_class_names: set(df["LiquidClassName"].unique())
get_liquid_class_names(df) == { df[i].LiquidClassName : i \in 1..Len(df) }

\* One row of the inner join on LiquidClassID.
TolRow(lc, band) ==
    [LiquidClassID |-> lc.LiquidClassID, LiquidClassName |-> lc.LiquidClassName,
     StepType |-> band.StepType,
     LowerToleranceBandTADM |-> band.LowerToleranceBandTADM,
     UpperToleranceBandTADM |-> band.UpperToleranceBandTADM]

\* Concatenation of a sequence of sequences.
RECURSIVE Flatten(_)
Flatten(ss) == IF ss = <<>> THEN <<>> ELSE Head(ss) \o Flatten(Tail(ss))

\* import_tolerance_band_data (tadm/mdbtools.py, tadm/pyodbc.py):
\* df = LiquidClass rows with a name in lc_names;
\* pd.merge(df, data, how="inner", on="LiquidClassID").
pandas_import_tolerance_band_data(liquid_class, tol_band, lc_names) ==
    LET df == SelectSeq(liquid_class, LAMBDA r : r.LiquidClassName \in lc_names)
        match(l) == SelectSeq(tol_band, LAMBDA b : b.LiquidClassID = l.LiquidClassID)
    IN Flatten([i \in 1..Len(df) |->
                  [j \in 1..Len(match(df[i])) |-> TolRow(df[i], match(df[i])[j])]])

\* import_tolerance_band_data (tadm_polars): data.join(df, how="inner",
\* on="LiquidClassID"), the tolerance-band table on the left.
polars_import_tolerance_band_data(liquid_class, tol_band, lc_names) ==
    LET df == SelectSeq(liquid_class, LAMBDA r : r.LiquidClassName \in lc_names)
        match(b) == SelectSeq(df, LAMBDA l : l.LiquidClassID = b.LiquidClassID)
    IN Flatten([i \in 1..Len(tol_band) |->
                  [j \in 1..Len(match(tol_band[i])) |->
                      TolRow(match(tol_band[i])[j], tol_band[i])]])

import_tolerance_band_data(impl, liquid_class, tol_band, lc_names) ==
    IF impl = "pandas"
    THEN pandas_import_tolerance_band_data(liquid_class, tol_band, lc_names)
    ELSE polars_import_tolerance_band_data(liquid_class, tol_band, lc_names)

\* A row of the merged table: the curve's columns and the tolerance columns.
MergedRow(c, id, lower, upper) ==
    [CurveId |-> c.CurveId, LiquidClassName |-> c.LiquidClassName,
     StepType |-> c.StepType, ChannelNumber |-> c.ChannelNumber, TADM |-> c.TADM,
     LiquidClassID |-> id,
     LowerToleranceBandTADM |-> lower, UpperToleranceBandTADM |-> upper]

\* A join on the liquid-class name alone.
merge_on_name_only(tadm_data, tol_band_data) ==
    LET match(c) == SelectSeq(tol_band_data,
                        LAMBDA t : t.LiquidClassName = c.LiquidClassName)
        rows(c) == IF match(c) = <<>>
                   THEN << MergedRow(c, NoId, NoArray, NoArray) >>
                   ELSE [j \in 1..Len(match(c)) |->
                           MergedRow(c, match(c)[j].LiquidClassID,
                                     match(c)[j].LowerToleranceBandTADM,
                                     match(c)[j].UpperToleranceBandTADM)]
    IN Flatten([i \in 1..Len(tadm_data) |-> rows(tadm_data[i])])

\* A full outer join: the left join followed by the tolerance rows that no
\* curve matches, their curve columns absent.
merge_outer(tadm_data, tol_band_data) ==
    LET match(c) == SelectSeq(tol_band_data,
                        LAMBDA t : /\ t.LiquidClassName = c.LiquidClassName
                                   /\ t.StepType = c.StepType)
        rows(c) == IF match(c) = <<>>
                   THEN << MergedRow(c, NoId, NoArray, NoArray) >>
                   ELSE [j \in 1..Len(match(c)) |->
                           MergedRow(c, match(c)[j].LiquidClassID,
                                     match(c)[j].LowerToleranceBandTADM,
                                     match(c)[j].UpperToleranceBandTADM)]
        unmatched == SelectSeq(tol_band_data,
                        LAMBDA t : \A i \in 1..Len(tadm_data) :
                                      \/ t.LiquidClassName # tadm_data[i].LiquidClassName
                                      \/ t.StepType # tadm_data[i].StepType)
    IN Flatten([i \in 1..Len(tadm_data) |-> rows(tadm_data[i])])
       \o [j \in 1..Len(unmatched) |->
             MergedRow(CurveRow(NoId, unmatched[j].LiquidClassName,
                                unmatched[j].StepType, 0, <<>>),
                       unmatched[j].LiquidClassID,
                       unmatched[j].LowerToleranceBandTADM,
                       unmatched[j].UpperToleranceBandTADM)]

\* merge_tadm_and_tolerance_data: a left join on ["LiquidClassName",
\* "StepType"] (pd.merge how="left" / DataFrame.join how="left"): the rows of
\* tadm_data in order, each once per matching tolerance row, or once with the
\* tolerance columns absent.
merge_tadm_and_tolerance_data(tadm_data, tol_band_data) ==
    LET match(c) == SelectSeq(tol_band_data,
                        LAMBDA t : /\ t.LiquidClassName = c.LiquidClassName
                                   /\ t.StepType = c.StepType)
        rows(c) == IF match(c) = <<>>
                   THEN << MergedRow(c, NoId, NoArray, NoArray) >>
                   ELSE [j \in 1..Len(match(c)) |->
                           MergedRow(c, match(c)[j].LiquidClassID,
                                     match(c)[j].LowerToleranceBandTADM,
                                     match(c)[j].UpperToleranceBandTADM)]
    IN Flatten([i \in 1..Len(tadm_data) |-> rows(tadm_data[i])])

MInit ==
    /\ m_pc = "start"
    /\ m_impl \in {"pandas", "polars"}
    /\ m_curves \in CurveTables
    /\ m_liquid_class \in LiquidClassTables
    /\ m_tol_band \in ToleranceBandTables
    /\ m_tol = <<>>
    /\ m_merged = <<>>

MIdle ==
    /\ m_pc = "start"
    /\ m_impl = "pandas"
    /\ m_curves = <<>>
    /\ m_liquid_class = <<>>
    /\ m_tol_band = <<>>
    /\ m_tol = <<>>
    /\ m_merged = <<>>

\* tol = import_tolerance_band_data(lcdb_path, get_liquid_class_names(df))
ImportToleranceBandData ==
    /\ m_pc = "start"
    /\ m_tol' = import_tolerance_band_data(m_impl, m_liquid_class, m_tol_band,
                                           get_liquid_class_names(m_curves))
    /\ m_pc' = "imported"
    /\ UNCHANGED <<xVars, fVars, dVars, envVars, selVars, stVars, m_impl, m_curves, m_liquid_class,
                   m_tol_band, m_merged, pVars, gVars>>

\* df = merge_tadm_and_tolerance_data(df, tol)
MergeTadmAndToleranceData ==
    /\ m_pc = "imported"
    /\ m_merged' = merge_tadm_and_tolerance_data(m_curves, m_tol)
    /\ m_pc' = "merged"
    /\ UNCHANGED <<xVars, fVars, dVars, envVars, selVars, stVars, m_impl, m_curves, m_liquid_class,
                   m_tol_band, m_tol, pVars, gVars>>

-----------------------------------------------------------------------------
(* plot_both_steps: tadm/plotter.py (pandas), tadm_polars/plotter.py        *)
(* (polars), main.py PlotFrame.plot_both_steps (wx) and tadm.py (CLI).      *)

PlotVariants == {"tadm.plotter", "tadm_polars.plotter", "main.PlotFrame", "tadm.py"}

cols8 == <<"cornflowerblue", "orange", "mediumseagreen", "mediumorchid",
           "palevioletred", "yellowgreen", "lightcoral", "slateblue">>
cols4 == <<"cornflowerblue", "orange", "mediumseagreen", "mediumorchid">>

\* The list "cols" of each plot_both_steps.
cols(variant) ==
    IF variant \in {"tadm.plotter", "tadm_polars.plotter"} THEN cols8 ELSE cols4

\* Bounds of the drawn row sets: rows per liquid class, channel numbers.
MaxRows == 2
MaxChannel == 5

SeqMax(a) == CHOOSE x \in Range(a) : \A y \in Range(a) : y <= x
SeqMin(a) == CHOOSE x \in Range(a) : \A y \in Range(a) : x <= y
SetMax(S) == CHOOSE x \in S : \A y \in S : y <= x
SetMin(S) == CHOOSE x \in S : \A y \in S : x <= y

\* Signed 16-bit wrap-around.
Wrap16(x) == ((x + 32768) % 65536) - 32768

\* Limits computed in the 16-bit type of the samples.
calc_y_limits_int16(variant, step_data) ==
    LET y_max == SetMax({ SeqMax(step_data[i].TADM) : i \in 1..Len(step_data) })
        y_min == SetMin({ SeqMin(step_data[i].TADM) : i \in 1..Len(step_data) })
    IN <<Wrap16(y_min - 100), Wrap16(y_max + 100)>>

\* calc_y_limits.  pandas: step_data["TADM"].apply(np.max) is a Series that
\* apply has converted to int64, so y_min-100 and y_max+100 are 64-bit
\* arithmetic; polars: .item() gives a Python int.  Neither is computed in
\* the samples' 16-bit type.
calc_y_limits(variant, step_data) ==
    LET y_max == SetMax({ SeqMax(step_data[i].TADM) : i \in 1..Len(step_data) })
        y_min == SetMin({ SeqMin(step_data[i].TADM) : i \in 1..Len(step_data) })
    IN <<y_min - 100, y_max + 100>>

\* calc_x_limits
calc_x_limits(step_data) ==
    <<0, SetMax({ Len(step_data[i].TADM) : i \in 1..Len(step_data) })>>

\* Levels read from the positions of the breakpoints: first[::2] twice.
LevelsFromBreakpointPositions(a) == [i \in 1..((Len(a) + 1) \div 2) |-> a[2 * i - 1]]

\* first[::2] and first[1::2]
EvenPositions(a) == [i \in 1..((Len(a) + 1) \div 2) |-> a[2 * i - 1]]
OddPositions(a) == [i \in 1..(Len(a) \div 2) |-> a[2 * i]]

\* The "no tolerance band" test: np.all(np.isnan(first)) (pandas; true of NaN
\* and of an empty array), first is None (polars).
BandAbsent(variant, first) ==
    IF variant = "tadm_polars.plotter" THEN ~first.present
    ELSE ~first.present \/ first.a = <<>>

\* The distinct channel numbers of step_data in groupby order: ascending
\* (pandas groupby sorts its keys), or by first appearance (polars group_by
\* with maintain_order=True).
RECURSIVE Ascending(_)
Ascending(S) ==
    IF S = {} THEN <<>> ELSE << SetMin(S) >> \o Ascending(S \ {SetMin(S)})

RECURSIVE FirstAppearance(_, _)
FirstAppearance(rows, seen) ==
    IF rows = <<>> THEN <<>>
    ELSE IF Head(rows).ChannelNumber \in seen THEN FirstAppearance(Tail(rows), seen)
    ELSE << Head(rows).ChannelNumber >>
         \o FirstAppearance(Tail(rows), seen \cup {Head(rows).ChannelNumber})

ChannelsOf(rows) == { rows[i].ChannelNumber : i \in 1..Len(rows) }

GroupKeys(variant, step_data) ==
    IF variant = "tadm_polars.plotter" THEN FirstAppearance(step_data, {})
    ELSE Ascending(ChannelsOf(step_data))

\* The 0-based index into cols used for the k-th group (k from 1), whose key
\* is the channel number "key": cols[i-1] with i the key (pandas), cols[i]
\* with i the enumeration index (polars).  The label is "Channel <LabelOf>".
ColorIndex(variant, k, key) == IF variant = "tadm_polars.plotter" THEN k - 1 ELSE key - 1
LabelOf(variant, k, key) == IF variant = "tadm_polars.plotter" THEN k ELSE key

\* One LineCollection: the curves of one channel group.
Collection(variant, step_data, k, key) ==
    [channel |-> key,
     color |-> cols(variant)[ColorIndex(variant, k, key) + 1],
     label |-> LabelOf(variant, k, key),
     curves |-> LET g == SelectSeq(step_data, LAMBDA r : r.ChannelNumber = key)
                IN [i \in 1..Len(g) |-> g[i].TADM]]

\* One tolerance band of one panel: a plotted (x, y) line, or the fallback
\* axis limits.
BandArtist(variant, step_data, band) ==
    LET first == step_data[1][band] IN
    IF BandAbsent(variant, first)
    THEN [kind |-> "limits", x |-> calc_x_limits(step_data),
          y |-> calc_y_limits(variant, step_data)]
    ELSE [kind |-> "line", x |-> EvenPositions(first.a), y |-> OddPositions(first.a)]

BandNames == <<"LowerToleranceBandTADM", "UpperToleranceBandTADM">>

\* The body of the loop over (ax1, ax2): the panel of one step type.  The
\* result names the exception that ended it ("none" when it completed).
RenderPanel(variant, data, step_type) ==
    LET step_data == SelectSeq(data, LAMBDA r : r.StepType = step_type)
        keys == GroupKeys(variant, step_data)
        bad == { k \in 1..Len(keys) :
                   ColorIndex(variant, k, keys[k]) >= Len(cols(variant)) }
        drawn == IF bad = {} THEN Len(keys) ELSE SetMin(bad) - 1
        bands == [b \in 1..2 |-> BandArtist(variant, step_data, BandNames[b])]
        lines == SelectSeq(bands, LAMBDA b : b.kind = "line")
    IN IF \E i \in 1..Len(data) : BandNames[1] \notin DOMAIN data[i]
       THEN [error |-> "KeyError", step |-> step_type, bands |-> <<>>,
             collections |-> <<>>]
       ELSE IF step_data = <<>>
       THEN \* step_data.iloc[0][band] / step_data.select(band).item(0, 0)
            [error |-> "IndexError", step |-> step_type, bands |-> <<>>,
             collections |-> <<>>]
       ELSE IF \E i \in 1..Len(lines) : Len(lines[i].x) # Len(lines[i].y)
       THEN \* axis.plot(x, y) with x and y of different lengths
            [error |-> "ValueError", step |-> step_type, bands |-> <<>>,
             collections |-> <<>>]
       ELSE [error |-> IF bad = {} THEN "none" ELSE "IndexError",
             step |-> step_type, bands |-> bands,
             collections |-> [k \in 1..drawn |->
                                 Collection(variant, step_data, k, keys[k])]]

Take(s, n) == SubSeq(s, 1, IF n < Len(s) THEN n ELSE Len(s))

\* The legend handles: lcs[:n_channels], n_channels the number of distinct
\* channels of the last step_data (the Dispense panel's); lcs[:4] in main.py.
LegendHandles(variant, data, lcs) ==
    IF variant = "main.PlotFrame" THEN Take(lcs, 4)
    ELSE Take(lcs, Cardinality(ChannelsOf(
                 SelectSeq(data, LAMBDA r : r.StepType = Dispense))))

\* An output step that displays the figure before saving it.
OutputEvents_show_first(variant, out_plot, noshow) ==
    IF variant = "main.PlotFrame" THEN <<>>
    ELSE (IF noshow THEN <<>> ELSE <<"show">>)
         \o (IF out_plot THEN <<"savefig">> ELSE <<>>)
         \o <<"close">>

\* savefig / show / close, in the order executed (main.py's method has none).
OutputEvents(variant, out_plot, noshow) ==
    IF variant = "main.PlotFrame" THEN <<>>
    ELSE (IF out_plot THEN <<"savefig">> ELSE <<>>)
         \o (IF noshow THEN <<>> ELSE <<"show">>)
         \o <<"close">>

NoFigure == [error |-> "none", title |-> <<>>, panels |-> <<>>, legend |-> <<>>,
             events |-> <<>>]

\* plot_both_steps as a whole: the figure it leaves, or the exception raised.
plot_both_steps(variant, data, out_plot, noshow) ==
    IF data = <<>>
    THEN \* data.iloc[0]["LiquidClassName"]
         [NoFigure EXCEPT !.error = "IndexError"]
    ELSE LET title == data[1].LiquidClassName
             p1 == RenderPanel(variant, data, Aspirate)
             p2 == RenderPanel(variant, data, Dispense)
             lcs == p1.collections \o p2.collections
         IN IF p1.error # "none"
            THEN [NoFigure EXCEPT !.error = p1.error, !.title = title,
                                  !.panels = <<p1>>]
            ELSE IF p2.error # "none"
            THEN [NoFigure EXCEPT !.error = p2.error, !.title = title,
                                  !.panels = <<p1, p2>>]
            ELSE [error |-> "none", title |-> title, panels |-> <<p1, p2>>,
                  legend |-> LegendHandles(variant, data, lcs),
                  events |-> OutputEvents(variant, out_plot, noshow)]

\* The samples of the i-th curve: signed 16-bit values, those of channel 1
\* at the lower end of the range, those of channel 2 at the upper end.
PlotSamples(i, channel) ==
    IF channel = 1 THEN <<i - 32768, 0>>
    ELSE IF channel = 2 THEN <<32767 - i>>
    ELSE <<i, 0 - i, 10 * channel>>

\* The rows of one liquid class: each row a step type and a channel; the
\* tolerance bands are those of the class, present or absent per step type.
PlotRow(i, step, channel, has_band) ==
    MergedRow(CurveRow(i, <<"a">>, step, channel, PlotSamples(i, channel)),
              IF has_band[step] THEN 1 ELSE NoId,
              IF has_band[step] THEN LowerBandOf(1, step) ELSE NoArray,
              IF has_band[step] THEN UpperBandOf(1, step) ELSE NoArray)

PlotData ==
    UNION {
        { [i \in 1..n |-> PlotRow(i, f[i][1], f[i][2], hb)] :
            f \in [1..n -> StepCodes \X (1..MaxChannel)],
            hb \in { [s \in StepCodes |-> b] : b \in BOOLEAN } } :
        n \in 1..MaxRows }

PInit ==
    /\ p_pc = "start"
    /\ p_variant \in PlotVariants
    /\ p_data \in PlotData
    /\ p_out_plot = FALSE
    /\ p_noshow = FALSE
    /\ p_fig = NoFigure

PIdle ==
    /\ p_pc = "start"
    /\ p_variant = "tadm.plotter"
    /\ p_data = <<>>
    /\ p_out_plot = FALSE
    /\ p_noshow = FALSE
    /\ p_fig = NoFigure

PlotBothSteps ==
    /\ p_pc = "start"
    /\ \E out_plot \in BOOLEAN, noshow \in BOOLEAN :
          /\ p_out_plot' = out_plot
          /\ p_noshow' = noshow
          /\ p_fig' = plot_both_steps(p_variant, p_data, out_plot, noshow)
    /\ p_pc' = "done"
    /\ UNCHANGED <<xVars, fVars, dVars, envVars, selVars, stVars, mVars, p_variant, p_data, gVars>>

-----------------------------------------------------------------------------
(* GUI front end A: main.py                                                 *)

\* tadm.data.get_data_module (tadm/data.py): the selector of the pandas
\* package, with the algorithm of the selector above and the module names of
\* the "tadm" package.
tadm_data_get_data_module(installed, system, drivers, outcome) ==
    LET r == get_data_module(installed, system, drivers, outcome) IN
    IF r = Ret("tadm_polars.pyodbc") THEN Ret("tadm.pyodbc")
    ELSE IF r = Ret("tadm_polars.mdbtools") THEN Ret("tadm.mdbtools")
    ELSE r

\* Data.check_for_driver: False on RuntimeError, True on a return; any other
\* exception propagates.
check_for_driver(installed, system, drivers, outcome) ==
    LET r == tadm_data_get_data_module(installed, system, drivers, outcome) IN
    IF r = Raise("RuntimeError") THEN Ret("False")
    ELSE IF r.kind = "raise" THEN r
    ELSE Ret("True")

\* The measurement databases a user can pick, and the TadmCurve table of each.
Files == {"a.mdb", "b.mdb"}

FileCurves(path) ==
    IF path = "a.mdb"
    THEN << CurveRow(1, <<"a">>, Aspirate, 1, <<0, 5>>),
            CurveRow(2, <<"a">>, Dispense, 1, <<0, 7>>),
            CurveRow(3, <<"a", "b">>, Aspirate, 2, <<1, 2>>),
            CurveRow(4, <<"a", "b">>, Dispense, 2, <<3, 4>>) >>
    ELSE << CurveRow(1, <<"b">>, Aspirate, 1, <<0, 9>>),
            CurveRow(2, <<"b">>, Dispense, 2, <<8, 9>>) >>

\* The bundled reference database ML_STARLiquids.mdb.
LcdbLiquidClass ==
    << [LiquidClassID |-> 1, LiquidClassName |-> <<"a">>],
       [LiquidClassID |-> 2, LiquidClassName |-> <<"b">>] >>

LcdbToleranceBand ==
    [i \in 1..3 |->
        LET id == IF i = 3 THEN 2 ELSE 1
            step == IF i = 2 THEN Dispense ELSE Aspirate
        IN [LiquidClassID |-> id, StepType |-> step,
            LowerToleranceBandTADM |-> LowerBandOf(id, step),
            UpperToleranceBandTADM |-> UpperBandOf(id, step)]]

\* str.contains(liquid_class): liquid_class occurs in name.
contains(name, liquid_class) ==
    \E i \in 0..(Len(name) - Len(liquid_class)) :
        SubSeq(name, i + 1, i + Len(liquid_class)) = liquid_class

\* get_data_for_liquid_class (tadm/plotter.py)
get_data_for_liquid_class(table, liquid_class) ==
    SelectSeq(table, LAMBDA r : contains(r.LiquidClassName, liquid_class))

\* Data.df: None, the curve table (set by the first statement of load_data)
\* or the merged table.
NoTable == [kind |-> "None", rows |-> <<>>]

\* Data.load_data() in which the step "fails" raises ("none": no step does):
\* the values of <<df, lc_names>> it leaves.
load_data(path, old_df, old_names, fails) ==
    LET curves == FileCurves(path)
        names == get_liquid_class_names(curves)
        tol == import_tolerance_band_data("pandas", LcdbLiquidClass,
                                          LcdbToleranceBand, names)
    IN IF fails = "import_tadm_data" THEN <<old_df, old_names>>
       ELSE IF fails \in {"import_tolerance_band_data", "merge_tadm_and_tolerance_data"}
       THEN << [kind |-> "curves", rows |-> curves], names >>
       ELSE << [kind |-> "merged",
                rows |-> merge_tadm_and_tolerance_data(curves, tol)], names >>

LoadSteps == {"import_tadm_data", "import_tolerance_band_data",
              "merge_tadm_and_tolerance_data"}

\* The orders in which list(set) can enumerate a set.
ListsOf(S) ==
    { q \in [1..Cardinality(S) -> S] : \A x \in S : \E i \in DOMAIN q : q[i] = x }

\* wx.NOT_FOUND, for a 1-based selection index.
NOT_FOUND == 0

\* GetStringSelection(): the selected string, or the empty string.
GetStringSelection(lb) ==
    IF lb.selection = NOT_FOUND THEN <<>> ELSE lb.items[lb.selection]

NoPlot == [lc |-> <<>>, fig |-> NoFigure]

\* Data.__init__ and MainFrame.build_ui: every field None, Import, the list
\* and Generate disabled, the list empty (None fields: the empty set or table).
GInit ==
    /\ g_pc = "import"
    /\ g_backend = "none"
    /\ g_dialog = FALSE
    /\ data_tadm_path = "None"
    /\ data_df = NoTable
    /\ data_lc_names = {}
    /\ data_step_data = <<>>
    /\ button_import = FALSE
    /\ list_box = [enabled |-> FALSE, items |-> <<>>, selection |-> NOT_FOUND]
    /\ button_plot = FALSE
    /\ g_event = "none"
    /\ g_error = "none"
    /\ g_imported = FALSE
    /\ g_plot = NoPlot

\* main.py lines 17-24, run when the module is loaded: the backend module is
\* selected and imported; an exception here is not handled.
ModuleImport ==
    /\ g_pc = "import"
    /\ LET r == tadm_data_get_data_module(pyodbc_installed, platform,
                                          odbc_drivers, mdb_export)
       IN IF r.kind = "raise"
          THEN g_pc' = "crashed" /\ g_backend' = "none"
          ELSE g_pc' = "main" /\ g_backend' = r.value
    /\ UNCHANGED <<xVars, fVars, dVars, envVars, selVars, stVars, mVars, pVars, g_dialog, dataVars,
                   widgetVars, g_event, g_error, g_imported, g_plot>>

\* The __main__ block: the frame is built, then check_for_driver(); when it
\* is False driver_help shows the dialog and closes the frame.
Main ==
    /\ g_pc = "main"
    /\ LET r == check_for_driver(pyodbc_installed, platform, odbc_drivers, mdb_export)
       IN IF r.kind = "raise" THEN g_pc' = "crashed" /\ g_dialog' = FALSE
          ELSE IF r.value = "False" THEN g_pc' = "closed" /\ g_dialog' = TRUE
          ELSE g_pc' = "mainloop" /\ g_dialog' = FALSE
    /\ UNCHANGED <<xVars, fVars, dVars, envVars, selVars, stVars, mVars, pVars, g_backend, dataVars,
                   widgetVars, g_event, g_error, g_imported, g_plot>>

\* MainFrame.on_file_selected
on_file_selected ==
    /\ g_pc = "mainloop"
    /\ \E path \in Files : data_tadm_path' = path
    /\ button_import' = TRUE
    /\ g_event' = "on_file_selected"
    /\ UNCHANGED <<xVars, fVars, dVars, envVars, selVars, stVars, mVars, pVars, g_pc, g_backend, g_dialog,
                   data_df, data_lc_names, data_step_data, list_box, button_plot, g_error,
                   g_imported, g_plot>>

\* MainFrame.on_click_import.  An exception raised by load_data() leaves the
\* handler before the list is touched; wx reports it and the event loop goes
\* on.  SetItems replaces the items and leaves nothing selected.
on_click_import ==
    /\ g_pc = "mainloop"
    /\ button_import
    /\ \E fails \in LoadSteps \cup {"none"} :
          LET loaded == load_data(data_tadm_path, data_df, data_lc_names, fails) IN
          /\ g_error' = fails
          /\ IF data_tadm_path = "None"
             THEN UNCHANGED <<data_df, data_lc_names, list_box, g_imported>>
             ELSE /\ data_df' = loaded[1]
                  /\ data_lc_names' = loaded[2]
                  /\ IF fails = "none"
                     THEN /\ \E items \in ListsOf(loaded[2]) :
                                list_box' = [enabled |-> TRUE, items |-> items,
                                             selection |-> NOT_FOUND]
                          /\ g_imported' = TRUE
                     ELSE UNCHANGED <<list_box, g_imported>>
    /\ g_event' = "on_click_import"
    /\ UNCHANGED <<xVars, fVars, dVars, envVars, selVars, stVars, mVars, pVars, g_pc, g_backend, g_dialog,
                   data_tadm_path, data_step_data, button_import, button_plot, g_plot>>

\* MainFrame.on_select_list: the user picks an item of the enabled list.
on_select_list ==
    /\ g_pc = "mainloop"
    /\ list_box.enabled
    /\ \E i \in 1..Len(list_box.items) :
          list_box' = [list_box EXCEPT !.selection = i]
    /\ button_plot' = TRUE
    /\ g_event' = "on_select_list"
    /\ UNCHANGED <<xVars, fVars, dVars, envVars, selVars, stVars, mVars, pVars, g_pc, g_backend, g_dialog,
                   dataVars, button_import, g_error, g_imported, g_plot>>

\* MainFrame.on_click_plot: Data.get_data_for_step(lc), then a PlotFrame
\* renders Data.step_data.
on_click_plot ==
    /\ g_pc = "mainloop"
    /\ button_plot
    /\ LET lc == GetStringSelection(list_box)
           rows == get_data_for_liquid_class(data_df.rows, lc)
       IN /\ data_step_data' = rows
          /\ g_plot' = [lc |-> lc,
                        fig |-> plot_both_steps("main.PlotFrame", rows, FALSE, FALSE)]
    /\ g_event' = "on_click_plot"
    /\ UNCHANGED <<xVars, fVars, dVars, envVars, selVars, stVars, mVars, pVars, g_pc, g_backend, g_dialog,
                   data_tadm_path, data_df, data_lc_names, widgetVars, g_error, g_imported>>

\* MainFrame.on_click_exit
on_click_exit ==
    /\ g_pc = "mainloop"
    /\ g_pc' = "closed"
    /\ g_event' = "on_click_exit"
    /\ UNCHANGED <<xVars, fVars, dVars, envVars, selVars, stVars, mVars, pVars, g_backend, g_dialog,
                   dataVars, widgetVars, g_error, g_imported, g_plot>>

-----------------------------------------------------------------------------
(* Imports through the external tool: tadm/mdbtools.py and                  *)
(* tadm_polars/mdbtools.py.  Every table is fetched by                      *)
(*   proc = subprocess.run(["mdb-export", "-b", "hex", dbpath, <table>],    *)
(*                         stderr=subprocess.STDOUT, stdout=file)           *)
(* followed by read_csv(file, ...); proc is not used again.                 *)

\* Outcome of an import: the table returned or the exception raised.
Table(rows) == [kind |-> "return", error |-> "none", rows |-> rows]
Failed(e) == [kind |-> "raise", error |-> e, rows |-> <<>>]
NoOutcome == [kind |-> "none", error |-> "none", rows |-> <<>>]

\* What one invocation of mdb-export can do: it cannot be started
\* (subprocess.run raises FileNotFoundError), it exits 0 having written the
\* header and every row, or it exits non-zero having written nothing, only a
\* message (stderr goes to the same file), or the header and the first n rows.
NotStarted == [status |-> "notstarted", out |-> "none", n |-> 0]

ExportRuns(table) ==
    {NotStarted}
    \cup { [status |-> "exit0", out |-> "rows", n |-> Len(table)] }
    \cup { [status |-> "nonzero", out |-> o, n |-> 0] : o \in {"empty", "message"} }
    \cup { [status |-> "nonzero", out |-> "rows", n |-> k] : k \in 0..Len(table) }

\* subprocess.run(...) then pd.read_csv(file, usecols=...) /
\* pl.read_csv(file, columns=...): the rows parsed from what the tool wrote.
\* An empty file and a file without the expected columns make read_csv raise.
run_and_read_csv(impl, run, table) ==
    IF run.status = "notstarted" THEN Failed("FileNotFoundError")
    ELSE IF run.out = "empty"
    THEN Failed(IF impl = "pandas" THEN "EmptyDataError" ELSE "NoDataError")
    ELSE IF run.out = "message"
    THEN Failed(IF impl = "pandas" THEN "ValueError" ELSE "ColumnNotFoundError")
    ELSE Table(SubSeq(table, 1, run.n))

\* import_tadm_data(dbpath)
mdbtools_import_tadm_data(impl, curves, run) ==
    run_and_read_csv(impl, run, curves)

\* import_tolerance_band_data(dbpath, lc_names): the LiquidClass export and
\* read, the filter, the TadmToleranceBand export and read, the inner join.
mdbtools_import_tolerance_band_data(impl, liquid_class, tol_band, lc_names, run1, run2) ==
    LET df == run_and_read_csv(impl, run1, liquid_class)
        data == run_and_read_csv(impl, run2, tol_band)
    IN IF df.kind = "raise" THEN df
       ELSE IF data.kind = "raise" THEN data
       ELSE Table(import_tolerance_band_data(impl, df.rows, data.rows, lc_names))

XInit ==
    /\ x_pc = "start"
    /\ x_impl \in {"pandas", "polars"}
    /\ x_db \in CurveTables
    /\ x_op = "none"
    /\ x_runs = <<>>
    /\ x_result = NoOutcome

XIdle ==
    /\ x_pc = "start"
    /\ x_impl = "pandas"
    /\ x_db = <<>>
    /\ x_op = "none"
    /\ x_runs = <<>>
    /\ x_result = NoOutcome

\* df = import_tadm_data(tadm_path)
ExportImportTadmData ==
    /\ x_pc = "start"
    /\ \E run \in ExportRuns(x_db) :
          /\ x_runs' = << run >>
          /\ x_result' = mdbtools_import_tadm_data(x_impl, x_db, run)
    /\ x_op' = "import_tadm_data"
    /\ x_pc' = "done"
    /\ UNCHANGED <<x_impl, x_db, fVars, dVars, envVars, selVars, stVars, mVars,
                   pVars, gVars>>

\* tol = import_tolerance_band_data(lcdb_path, lc_names), on the bundled
\* reference database; the second export runs only if the first table was read.
ExportImportToleranceBandData ==
    /\ x_pc = "start"
    /\ \E run1 \in ExportRuns(LcdbLiquidClass), run2 \in ExportRuns(LcdbToleranceBand) :
          /\ x_runs' = IF run_and_read_csv(x_impl, run1, LcdbLiquidClass).kind = "raise"
                       THEN << run1 >> ELSE << run1, run2 >>
          /\ x_result' = mdbtools_import_tolerance_band_data(
                             x_impl, LcdbLiquidClass, LcdbToleranceBand,
                             get_liquid_class_names(x_db), run1, run2)
    /\ x_op' = "import_tolerance_band_data"
    /\ x_pc' = "done"
    /\ UNCHANGED <<x_impl, x_db, fVars, dVars, envVars, selVars, stVars, mVars,
                   pVars, gVars>>

-----------------------------------------------------------------------------
(* Row filters: get_data_for_step and get_data_for_liquid_class of          *)
(* tadm/plotter.py (pandas, the same code in tadm.py) and                   *)
(* tadm_polars/plotter.py (polars).                                         *)

\* get_data_for_step (pandas):
\* df[(df["LiquidClassName"].str.contains(liquid_class)) & (df["StepType"] == step_type)]
pandas_get_data_for_step(df, liquid_class, step_type) ==
    Table(SelectSeq(df, LAMBDA r : /\ contains(r.LiquidClassName, liquid_class)
                                   /\ r.StepType = step_type))

\* What polars makes of Boolean & Int64: it refuses the operands, or it casts
\* the Boolean to the integer type and takes the bitwise AND.
MixedAnd == {"raise", "coerce"}

\* b & s for a Boolean b cast to 0/1 and a two's-complement integer s: the
\* lowest bit of s when b, else 0.
BoolAndInt(b, s) == IF b THEN s % 2 ELSE 0

\* get_data_for_step (polars):
\* df.filter(pl.col("LiquidClassName").str.contains(liquid_class) &
\*           df["StepType"] == step_type)
\* Python's & binds tighter than ==, so the predicate is
\* (contains & StepType) == step_type.
polars_get_data_for_step(df, liquid_class, step_type, mixed_and) ==
    IF mixed_and = "raise" THEN Failed("InvalidOperationError")
    ELSE Table(SelectSeq(df, LAMBDA r :
                 BoolAndInt(contains(r.LiquidClassName, liquid_class), r.StepType)
                     = step_type))

get_data_for_step(impl, df, liquid_class, step_type, mixed_and) ==
    IF impl = "pandas" THEN pandas_get_data_for_step(df, liquid_class, step_type)
    ELSE polars_get_data_for_step(df, liquid_class, step_type, mixed_and)

\* The liquid_class arguments: the names of the tables and one more.
FilterNames == Names \cup {<<"b">>}

FInit ==
    /\ f_pc = "start"
    /\ f_impl \in {"pandas", "polars"}
    /\ f_mixed_and \in MixedAnd
    /\ f_df \in CurveTables
    /\ f_name \in FilterNames
    /\ f_step \in {Aspirate, Dispense, Unknown}
    /\ f_result = NoOutcome

FIdle ==
    /\ f_pc = "start"
    /\ f_impl = "pandas"
    /\ f_mixed_and = "raise"
    /\ f_df = <<>>
    /\ f_name = <<"a">>
    /\ f_step = Aspirate
    /\ f_result = NoOutcome

GetDataForStep ==
    /\ f_pc = "start"
    /\ f_result' = get_data_for_step(f_impl, f_df, f_name, f_step, f_mixed_and)
    /\ f_pc' = "done"
    /\ UNCHANGED <<xVars, f_impl, f_mixed_and, f_df, f_name, f_step, dVars,
                   envVars, selVars, stVars, mVars, pVars, gVars>>

-----------------------------------------------------------------------------
(* Sample decoding: bin_to_int (tadm_polars/mdbtools.py) and the lambda     *)
(* np.frombuffer(x, np.int16) of tadm/mdbtools.py.                          *)

\* Bounds of the drawn byte strings.
MaxBytes == 4
ByteValues == {0, 1, 127, 128, 255}

ByteStrings == UNION { [1..n -> ByteValues] : n \in 0..MaxBytes }

Ints(a) == [kind |-> "return", error |-> "none", a |-> a]
DecodeFailed(e) == [kind |-> "raise", error |-> e, a |-> <<>>]
NotDecoded == [kind |-> "none", error |-> "none", a |-> <<>>]

\* The signed value of a 16-bit pattern.
Signed16(u) == IF u >= 32768 THEN u - 65536 ELSE u

\* np.frombuffer(byte_string, dtype=np.int16): np.int16 is the host's native
\* 16-bit integer, so the first byte of a pair is the low byte on a
\* little-endian host and the high byte on a big-endian one; a buffer whose
\* size is not a multiple of 2 raises ValueError.
bin_to_int(byte_string, byteorder) ==
    IF Len(byte_string) % 2 # 0 THEN DecodeFailed("ValueError")
    ELSE Ints([i \in 1..(Len(byte_string) \div 2) |->
                 IF byteorder = "little"
                 THEN Signed16(byte_string[2 * i - 1] + 256 * byte_string[2 * i])
                 ELSE Signed16(256 * byte_string[2 * i - 1] + byte_string[2 * i])])

DInit ==
    /\ d_pc = "start"
    /\ d_byteorder \in {"little", "big"}
    /\ d_bytes \in ByteStrings
    /\ d_result = NotDecoded

DIdle ==
    /\ d_pc = "start"
    /\ d_byteorder = "little"
    /\ d_bytes = <<>>
    /\ d_result = NotDecoded

BinToInt ==
    /\ d_pc = "start"
    /\ d_result' = bin_to_int(d_bytes, d_byteorder)
    /\ d_pc' = "done"
    /\ UNCHANGED <<xVars, fVars, d_byteorder, d_bytes, envVars, selVars, stVars,
                   mVars, pVars, gVars>>

-----------------------------------------------------------------------------
(* Specifications                                                           *)

InitSelect == EnvInit /\ SelInit /\ StIdle /\ MIdle /\ PIdle /\ GInit /\ XIdle /\ FIdle /\ DIdle
NextSelect == GetDataModule \/ Connect \/ GetDriver
SpecSelect == InitSelect /\ [][NextSelect]_vars

InitStep == EnvIdle /\ SelInit /\ StInit /\ MIdle /\ PIdle /\ GInit /\ XIdle /\ FIdle /\ DIdle
NextStep == FromInt
SpecStep == InitStep /\ [][NextStep]_vars

InitMerge == EnvIdle /\ SelInit /\ StIdle /\ MInit /\ PIdle /\ GInit /\ XIdle /\ FIdle /\ DIdle
NextMerge == ImportToleranceBandData \/ MergeTadmAndToleranceData
SpecMerge == InitMerge /\ [][NextMerge]_vars

InitPlot == EnvIdle /\ SelInit /\ StIdle /\ MIdle /\ PInit /\ GInit /\ XIdle /\ FIdle /\ DIdle
NextPlot == PlotBothSteps
SpecPlot == InitPlot /\ [][NextPlot]_vars

InitGui == EnvInit /\ SelInit /\ StIdle /\ MIdle /\ PIdle /\ GInit /\ XIdle /\ FIdle /\ DIdle
NextGui ==
    \/ ModuleImport \/ Main
    \/ on_file_selected \/ on_click_import \/ on_select_list \/ on_click_plot
    \/ on_click_exit
SpecGui == InitGui /\ [][NextGui]_vars

InitExport ==
    EnvIdle /\ SelInit /\ StIdle /\ MIdle /\ PIdle /\ GInit /\ XInit /\ FIdle /\ DIdle
NextExport == ExportImportTadmData \/ ExportImportToleranceBandData
SpecExport == InitExport /\ [][NextExport]_vars

InitFilter ==
    EnvIdle /\ SelInit /\ StIdle /\ MIdle /\ PIdle /\ GInit /\ XIdle /\ FInit /\ DIdle
NextFilter == GetDataForStep
SpecFilter == InitFilter /\ [][NextFilter]_vars

InitDecode ==
    EnvIdle /\ SelInit /\ StIdle /\ MIdle /\ PIdle /\ GInit /\ XIdle /\ FIdle /\ DInit
NextDecode == BinToInt
SpecDecode == InitDecode /\ [][NextDecode]_vars

-----------------------------------------------------------------------------
(* Claims                                                                   *)

NativeCheck == check_odbc(pyodbc_installed, platform, odbc_drivers)
ToolCheck == check_for_mdbtools(mdb_export)

\* C1: get_data_module returns the native-driver backend whenever check_odbc
\* succeeds (whatever the tool check would say), the external-tool backend
\* when check_odbc fails and check_for_mdbtools succeeds, and raises
\* RuntimeError when both fail; it never returns a backend whose own check
\* failed.
C1_SelectorContract ==
    sel_pc # "start" =>
        /\ NativeCheck => sel_result = Ret("tadm_polars.pyodbc")
        /\ (~NativeCheck /\ ToolCheck = Ret("True"))
              => sel_result = Ret("tadm_polars.mdbtools")
        /\ (~NativeCheck /\ ToolCheck = Ret("False"))
              => sel_result = Raise("RuntimeError")
        /\ sel_result = Ret("tadm_polars.pyodbc") => NativeCheck
        /\ sel_result = Ret("tadm_polars.mdbtools") => ToolCheck = Ret("True")

\* The fallback case of C1 has happened: no native driver, the tool found,
\* the external-tool backend returned.
C1_Witness ==
    /\ sel_pc = "selected"
    /\ pyodbc_installed /\ platform = "Linux" /\ MDBToolsDriver \notin odbc_drivers
    /\ mdb_export = "ok"
    /\ sel_result = Ret("tadm_polars.mdbtools")

\* The driver name the specification gives for a platform.
ExpectedDriver(system) ==
    CASE system = "Windows" -> Ret(MSAccessDriver)
      [] system \in {"Linux", "Darwin"} -> Ret(MDBToolsDriver)
      [] OTHER -> Raise("NotImplementedError")

\* C2: every get_driver returns the Access driver name on Windows,
\* MDBToolsODBC on Linux and on Darwin, and raises NotImplementedError
\* elsewhere; hence the get_driver of a native backend the selector chose
\* returns the driver name the selector looked up instead of raising.
C2_GetDriverContract ==
    /\ drv_impl # "none" => drv_result = ExpectedDriver(platform)
    /\ sel_pc = "connected" =>
          /\ drv_result.kind = "return"
          /\ drv_result = data_get_driver(platform)

\* C3: merge_tadm_and_tolerance_data is a curve-preserving left join on
\* (LiquidClassName, StepType): every curve row appears in the result; a curve
\* row without a tolerance row of equal name and step type appears exactly
\* once, its tolerance fields absent; a curve row with one carries the
\* tolerance fields of a tolerance row of its own name and step type; no
\* result row carries the fields of a tolerance row of another name or step
\* type.
C3_MergeIsLeftJoin ==
    m_pc = "merged" =>
        LET Matches(c) == { j \in 1..Len(m_tol) :
                              /\ m_tol[j].LiquidClassName = c.LiquidClassName
                              /\ m_tol[j].StepType = c.StepType }
            RowsOf(c) == { k \in 1..Len(m_merged) : m_merged[k].CurveId = c.CurveId }
            Carries(r, t) == /\ r.LiquidClassID = t.LiquidClassID
                             /\ r.LowerToleranceBandTADM = t.LowerToleranceBandTADM
                             /\ r.UpperToleranceBandTADM = t.UpperToleranceBandTADM
        IN /\ \A i \in 1..Len(m_curves) :
                LET c == m_curves[i] IN
                /\ RowsOf(c) # {}
                /\ \A k \in RowsOf(c) :
                      /\ m_merged[k].LiquidClassName = c.LiquidClassName
                      /\ m_merged[k].StepType = c.StepType
                      /\ m_merged[k].ChannelNumber = c.ChannelNumber
                      /\ m_merged[k].TADM = c.TADM
                /\ Matches(c) = {} =>
                      /\ Cardinality(RowsOf(c)) = 1
                      /\ \A k \in RowsOf(c) :
                            /\ m_merged[k].LiquidClassID = NoId
                            /\ m_merged[k].LowerToleranceBandTADM = NoArray
                            /\ m_merged[k].UpperToleranceBandTADM = NoArray
                /\ Matches(c) # {} =>
                      \A k \in RowsOf(c) :
                          \E j \in Matches(c) : Carries(m_merged[k], m_tol[j])
           /\ \A k \in 1..Len(m_merged) :
                /\ \E i \in 1..Len(m_curves) : m_curves[i].CurveId = m_merged[k].CurveId
                /\ \A j \in 1..Len(m_tol) :
                      Carries(m_merged[k], m_tol[j]) =>
                          /\ m_tol[j].LiquidClassName = m_merged[k].LiquidClassName
                          /\ m_tol[j].StepType = m_merged[k].StepType

\* A merge in which one curve found its tolerance row and another curve, of a
\* name the tolerance table knows only for the other step type, found none.
C3_Witness ==
    /\ m_pc = "merged"
    /\ \E k \in 1..Len(m_merged) : m_merged[k].LiquidClassID # NoId
    /\ \E k \in 1..Len(m_merged) :
          /\ m_merged[k].LiquidClassID = NoId
          /\ \E j \in 1..Len(m_tol) :
                /\ m_tol[j].LiquidClassName = m_merged[k].LiquidClassName
                /\ m_tol[j].StepType # m_merged[k].StepType

\* C4: StepType.from_int maps the Aspirate code to Aspirate, the Dispense
\* code to Dispense and every other integer to Unknown, so the two known
\* codes decode to two distinct members.
C4_FromIntContract ==
    st_pc = "done" =>
        st_result = (IF st_integer = Aspirate THEN "Aspirate"
                     ELSE IF st_integer = Dispense THEN "Dispense"
                     ELSE "Unknown")

StepsOf(rows) == { rows[i].StepType : i \in 1..Len(rows) }

\* C5: plot_both_steps completes with both panels for a row set that has rows
\* of only one of the two step types: the panel without data is rendered
\* empty and no error is raised.  (Channels beyond the renderer's palette are
\* left out: they fail in the panel that has data.)
C5_OneStepOnlyRenders ==
    ( /\ p_pc = "done"
      /\ Cardinality(StepsOf(p_data)) = 1
      /\ \A c \in ChannelsOf(p_data) : c <= Len(cols(p_variant)) )
    => /\ p_fig.error = "none"
       /\ Len(p_fig.panels) = 2
       /\ \A i \in 1..2 :
             p_fig.panels[i].step \notin StepsOf(p_data)
                => p_fig.panels[i].collections = <<>>

\* C6: in every panel, the curves of channel c are drawn with palette entry
\* c-1 and labelled "Channel c", whichever other channels are present and in
\* whatever order the channels first appear in the rows.
C6_ChannelColourByNumber ==
    (p_pc = "done" /\ p_fig.error = "none") =>
        \A i \in 1..Len(p_fig.panels) :
            \A k \in 1..Len(p_fig.panels[i].collections) :
                LET lc == p_fig.panels[i].collections[k] IN
                /\ lc.color = cols8[lc.channel]
                /\ lc.label = lc.channel

\* C7: the legend holds exactly one handle for every distinct channel number
\* present in the data: no channel twice, no present channel missing.
C7_LegendOnePerChannel ==
    (p_pc = "done" /\ p_fig.error = "none") =>
        /\ \A a, b \in 1..Len(p_fig.legend) :
              a # b => p_fig.legend[a].channel # p_fig.legend[b].channel
        /\ { p_fig.legend[a].channel : a \in 1..Len(p_fig.legend) }
              = ChannelsOf(p_data)

\* C8: in every state of front end A, Import is enabled only if a file path is
\* set, the list only after an import completed, and Generate only if a
\* liquid class of the currently loaded list is selected; Generate never runs
\* with an empty or stale selection.
C8_WidgetEnablement ==
    /\ button_import => data_tadm_path # "None"
    /\ list_box.enabled => g_imported
    /\ button_plot =>
          /\ list_box.selection # NOT_FOUND
          /\ GetStringSelection(list_box) \in data_lc_names
    /\ g_event = "on_click_plot" =>
          /\ g_plot.lc # <<>>
          /\ g_plot.lc \in data_lc_names

\* C9: an import that fails (the curve import, the tolerance import or the
\* merge raises) after an earlier successful import leaves Data.df and
\* Data.lc_names as they were, and the list shown still matches Data.lc_names.
C9_FailedImportKeepsState ==
    [][ (g_imported /\ g_event' = "on_click_import" /\ g_error' # "none")
          => /\ data_df' = data_df
             /\ data_lc_names' = data_lc_names
             /\ Range(list_box'.items) = data_lc_names' ]_vars

\* No usable extraction backend: the selector ends with RuntimeError.
NoUsableBackend ==
    /\ ~check_odbc(pyodbc_installed, platform, odbc_drivers)
    /\ mdb_export = "missing"

\* C10: with no usable backend at start-up, front end A ends by showing the
\* driver-missing dialog and closing the main window, with no import
\* attempted; it does not end on an unhandled error before the dialog.
C10_DriverHelpReached ==
    (NoUsableBackend /\ g_pc \in {"crashed", "closed"})
        => /\ g_pc = "closed"
           /\ g_dialog
           /\ data_df = NoTable

\* C11: in the external-tool backend, when an mdb-export invocation of
\* import_tadm_data or import_tolerance_band_data cannot be started or exits
\* with a non-zero status, the import raises and returns no table.
C11_FailedExportFailsImport ==
    (x_pc = "done" /\ \E i \in 1..Len(x_runs) : x_runs[i].status # "exit0")
        => x_result.kind = "raise"

\* The tolerance table import_tolerance_band_data builds when the name filter
\* keeps every row of LiquidClass.
UnfilteredTolerance ==
    import_tolerance_band_data(m_impl, m_liquid_class, m_tol_band,
                               get_liquid_class_names(m_liquid_class))

\* C12: the merged table does not depend on the tolerance pre-filter: merging
\* the curves with the tolerance table filtered to the curve table's names
\* gives the same rows as merging with the unfiltered tolerance table.
C12_PreFilterIsTransparent ==
    m_pc = "merged"
        => m_merged = merge_tadm_and_tolerance_data(m_curves, UnfilteredTolerance)

\* The filter removed a tolerance row and a curve found its tolerance band.
C12_Witness ==
    /\ m_pc = "merged"
    /\ Len(m_tol) < Len(UnfilteredTolerance)
    /\ \E i \in 1..Len(m_merged) : m_merged[i].LiquidClassID # NoId

\* C13: get_data_for_step(df, name, step_type) returns exactly the rows of
\* get_data_for_liquid_class(df, name) whose StepType equals step_type, in
\* the pandas and in the polars implementation.
C13_StepFilterRefinesClassFilter ==
    f_pc = "done"
        => f_result = Table(SelectSeq(get_data_for_liquid_class(f_df, f_name),
                                      LAMBDA r : r.StepType = f_step))

\* The positions of an output event in the figure's event list.
EventPositions(e) == { i \in 1..Len(p_fig.events) : p_fig.events[i] = e }

\* C14: plot_both_steps(data, out_plot, noshow), in each of the four
\* combinations of (output path given, noshow set) and once the panels are
\* rendered: saves the figure iff an output path is given, opens the window
\* iff noshow is not set, saves before it displays, displays before it
\* disposes of the figure, and disposes of it exactly once, at the end.
C14_SaveShowClose ==
    (p_pc = "done" /\ p_variant # "main.PlotFrame" /\ p_fig.error = "none")
        => /\ Cardinality(EventPositions("savefig")) = (IF p_out_plot THEN 1 ELSE 0)
           /\ Cardinality(EventPositions("show")) = (IF p_noshow THEN 0 ELSE 1)
           /\ EventPositions("close") = {Len(p_fig.events)}
           /\ \A i \in EventPositions("savefig"), j \in EventPositions("show") : i < j
           /\ \A j \in EventPositions("show"), k \in EventPositions("close") : j < k
           /\ \A i \in EventPositions("savefig"), k \in EventPositions("close") : i < k

\* A completed call that both saves and displays.
C14_Witness ==
    /\ p_pc = "done"
    /\ p_variant \in {"tadm.plotter", "tadm_polars.plotter"}
    /\ p_fig.error = "none"
    /\ p_out_plot
    /\ ~p_noshow
    /\ Len(p_fig.events) = 3

\* The rows of the panel of one step type, their samples and curve lengths.
PanelRows(step) == SelectSeq(p_data, LAMBDA r : r.StepType = step)
PanelSamples(step) ==
    UNION { Range(PanelRows(step)[i].TADM) : i \in 1..Len(PanelRows(step)) }
PanelLengths(step) ==
    { Len(PanelRows(step)[i].TADM) : i \in 1..Len(PanelRows(step)) }

\* C15: on a panel of signed 16-bit samples calc_y_limits returns exactly
\* (m - 100, M + 100), m and M the least and greatest sample of the panel,
\* and calc_x_limits returns (0, L), L the greatest curve length; no
\* wrap-around for samples within 100 of the 16-bit bounds.
C15_LimitsExact ==
    p_pc = "done"
        => \A k \in 1..Len(p_fig.panels) :
             \A b \in 1..Len(p_fig.panels[k].bands) :
                LET band == p_fig.panels[k].bands[b]
                    S == PanelSamples(p_fig.panels[k].step)
                    N == PanelLengths(p_fig.panels[k].step)
                IN band.kind = "limits"
                     => /\ \E m \in S, M \in S :
                              /\ \A v \in S : m <= v /\ v <= M
                              /\ band.y = <<m - 100, M + 100>>
                        /\ \E L \in N :
                              /\ \A n \in N : n <= L
                              /\ band.x = <<0, L>>

\* Limits were computed for a panel whose samples are within 100 of both
\* 16-bit bounds.
C15_Witness ==
    /\ p_pc = "done"
    /\ \E k \in 1..Len(p_fig.panels) :
          \E b \in 1..Len(p_fig.panels[k].bands) :
             /\ p_fig.panels[k].bands[b].kind = "limits"
             /\ p_fig.panels[k].bands[b].y[1] < -32768
             /\ p_fig.panels[k].bands[b].y[2] > 32767

\* The decoded tolerance array a panel's envelope is drawn from: the band
\* cell of the first row of the panel.
EnvelopeArray(step, b) == PanelRows(step)[1][BandNames[b]].a

C17_DecodeIsLittleEndian ==
    (d_pc = "done" /\ Len(d_bytes) % 2 = 0)
        => /\ d_result.kind = "return"
           /\ Len(d_result.a) = Len(d_bytes) \div 2
           /\ \A i \in 1..Len(d_result.a) :
                 /\ d_result.a[i] \in -32768..32767
                 /\ d_bytes[2 * i - 1] = d_result.a[i] % 256
                 /\ d_bytes[2 * i] = (d_result.a[i] % 65536) \div 256

\* C18: for a merged table and a name n that get_liquid_class_names returns
\* for it, get_data_for_liquid_class(df, n) is exactly the rows whose
\* LiquidClassName equals n: the rows handed to the chart renderer never
\* hold a second liquid class.
C18_SubsetIsOneLiquidClass ==
    (/\ g_event = "on_click_plot"
     /\ data_df.kind = "merged"
     /\ g_plot.lc \in get_liquid_class_names(data_df.rows))
        => data_step_data = SelectSeq(data_df.rows,
                                      LAMBDA r : r.LiquidClassName = g_plot.lc)

\* C19: in every chart renderer the palette index ChannelNumber - 1 is within
\* the renderer's palette for every ChannelNumber of 1..8, so drawing the
\* curves of such channels (in panels that both have rows) never fails with
\* an index error.
C19_PaletteCoversChannels ==
    (/\ p_pc = "done"
     /\ StepsOf(p_data) = StepCodes
     /\ ChannelsOf(p_data) \subseteq 1..8)
        => p_fig.error # "IndexError"

\* C20: check_for_mdbtools is total: whatever running "mdb-export --version"
\* does (tool missing, exit 0, non-zero exit, not executable) it returns a
\* boolean, so get_data_module ends by returning a backend name or by raising
\* RuntimeError, never another exception.
C20_SelectorEndsCleanly ==
    sel_pc # "start"
        => \/ sel_result.kind = "return"
           \/ sel_result = Raise("RuntimeError")

====
